---- MODULE Spec2Model ----
(***************************************************************************)
(* Model of the proofreading tool: volume/mask I/O (backend/               *)
(* volume_manager.py), the session (backend/session_manager.py) and the    *)
(* landing and editor routes (routes/landing.py, routes/editor.py).        *)
(*                                                                         *)
(* An array is a record [dtype, shape, data]: shape is a tuple of 2 or 3   *)
(* extents, data maps every 0-based index tuple to its sample.             *)
(* A path is a record [dir, name, ext]; name is a sequence of tokens so    *)
(* that "<base>_mask" can be formed.  The disk maps the existing paths to  *)
(* the array their decoder returns.                                        *)
(***************************************************************************)
EXTENDS Integers, Sequences, FiniteSets, TLC

VARIABLES
    disk,            \* the file system: existing path -> decoded content
    session,         \* SessionManager.state
    CURRENT_VOLUME,  \* current_app.config["CURRENT_VOLUME"]
    CURRENT_MASK,    \* current_app.config["CURRENT_MASK"]
    call,            \* a function called alone: its name and arguments
    resp,            \* the last response (or return value / exception)
    nreq             \* number of requests served so far

vars == <<disk, session, CURRENT_VOLUME, CURRENT_MASK, call, resp, nreq>>

\* ------------------------------------------------------------------ bounds
\* largest extent of an axis of a generated array (the smallest is 2: the
\* TIFF reader drops axes of length 1)
MaxDim == 3
\* largest sample of a generated array that is to be canonicalized
MaxSample == 3
\* requests served in one run of the session
MaxRequests == 3
\* longest "full_batch" list of an update request
MaxBatch == 2
\* a client's slice index z lies in -MaxZ..MaxZ
MaxZ == 2
\* longest list given to the batch loop when it is run alone
MaxEdits == 3

\* ------------------------------------------------------------------ arrays
None == [dtype |-> "None", shape |-> <<>>, data |-> <<>>]

Dims == 2..MaxDim

Indices(shape) ==
    IF Len(shape) = 2
    THEN (0..(shape[1] - 1)) \X (0..(shape[2] - 1))
    ELSE (0..(shape[1] - 1)) \X (0..(shape[2] - 1)) \X (0..(shape[3] - 1))

ndim(arr) == Len(arr.shape)

SetMin(S) == CHOOSE x \in S : \A y \in S : x <= y
SetMax(S) == CHOOSE x \in S : \A y \in S : x >= y

Samples(arr) == {arr.data[i] : i \in DOMAIN arr.data}

\* np.zeros_like(a, dtype=np.uint8)
zeros_like(arr) ==
    [dtype |-> "uint8", shape |-> arr.shape, data |-> [i \in Indices(arr.shape) |-> 0]]

\* np.clip(x, 0, 255) of the rational num/den (den > 0), kept as a numerator
clip(num, den) ==
    IF num < 0 THEN 0 ELSE IF num > 255 * den THEN 255 * den ELSE num

\* float -> uint8 of the non-negative rational num/den: the fraction is dropped
astype_uint8(num, den) == (num \div den) % 256

\* volume_manager._to_uint8.  norm * 255.0 is the rational
\* (x - mn) * 255 / (mx - mn); on these inputs the double-precision result
\* truncates to the same integer as the exact quotient.
_to_uint8_round(arr) ==
    IF arr.dtype = "uint8" THEN arr
    ELSE LET mn == SetMin(Samples(arr))
             mx == SetMax(Samples(arr))
         IN  IF mx <= mn THEN zeros_like(arr)
             ELSE [dtype |-> "uint8", shape |-> arr.shape,
                   data |-> [i \in DOMAIN arr.data |->
                       astype_uint8(2 * clip((arr.data[i] - mn) * 255, mx - mn) + (mx - mn),
                                    2 * (mx - mn))]]

_to_uint8_gain(arr) ==
    LET mx == SetMax(Samples(arr))
    IN  IF mx <= 0 THEN zeros_like(arr)
        ELSE [dtype |-> "uint8", shape |-> arr.shape,
              data |-> [i \in DOMAIN arr.data |->
                  astype_uint8(clip(arr.data[i] * 255, mx + 1), mx + 1)]]

_to_uint8(arr) ==
    IF arr.dtype = "uint8" THEN arr
    ELSE LET mn == SetMin(Samples(arr))
             mx == SetMax(Samples(arr))
         IN  IF mx <= mn THEN zeros_like(arr)
             ELSE [dtype |-> "uint8", shape |-> arr.shape,
                   data |-> [i \in DOMAIN arr.data |->
                       astype_uint8(clip((arr.data[i] - mn) * 255, mx - mn), mx - mn)]]

\* np.transpose(arr, perm) of a 3-D array; perm lists 0-based source axes:
\* out.shape[k] = arr.shape[perm[k]], out[idx] = arr[src], src[perm[k]] = idx[k]
np_transpose(arr, perm) ==
    LET shp == <<arr.shape[perm[1] + 1], arr.shape[perm[2] + 1], arr.shape[perm[3] + 1]>>
        from(idx, m) == idx[CHOOSE k \in 1..3 : perm[k] + 1 = m]
        src(idx) == <<from(idx, 1), from(idx, 2), from(idx, 3)>>
    IN  [dtype |-> arr.dtype, shape |-> shp,
         data |-> [idx \in Indices(shp) |-> arr.data[src(idx)]]]

\* np.moveaxis(arr, source, 0) of a 3-D array: axis `source` comes first, the
\* others keep their order
np_moveaxis(arr, source) ==
    np_transpose(arr, IF source = 1 THEN <<1, 0, 2>>
                      ELSE IF source = 2 THEN <<2, 0, 1>> ELSE <<0, 1, 2>>)

\* (arr > 0).astype(np.uint8)
binarize(arr) ==
    [dtype |-> "uint8", shape |-> arr.shape,
     data |-> [i \in DOMAIN arr.data |-> IF arr.data[i] > 0 THEN 1 ELSE 0]]

\* mask[-1]: the last slice of a 3-D array, where the code takes mask[0]
last_slice(arr) ==
    [dtype |-> arr.dtype, shape |-> <<arr.shape[2], arr.shape[3]>>,
     data |-> [i \in Indices(<<arr.shape[2], arr.shape[3]>>) |->
                  arr.data[<<arr.shape[1] - 1, i[1], i[2]>>]]]

\* arr[0] of a 3-D array
first_slice(arr) ==
    [dtype |-> arr.dtype, shape |-> <<arr.shape[2], arr.shape[3]>>,
     data |-> [i \in Indices(<<arr.shape[2], arr.shape[3]>>) |-> arr.data[<<0, i[1], i[2]>>]]]

\* cv2.resize(src, (w, h), interpolation=cv2.INTER_NEAREST) of a 2-D array:
\* dst[y, x] = src[min(floor(y * sh / h), sh - 1), min(floor(x * sw / w), sw - 1)]
cv2_resize(src, w, h) ==
    LET sh == src.shape[1]
        sw == src.shape[2]
        at(p, s, d) == IF (p * s) \div d > s - 1 THEN s - 1 ELSE (p * s) \div d
    IN  [dtype |-> src.dtype, shape |-> <<h, w>>,
         data |-> [i \in Indices(<<h, w>>) |-> src.data[<<at(i[1], sh, h), at(i[2], sw, w)>>]]]

\* np.stack([sl] * n, axis=0) of a 2-D array
np_stack(sl, n) ==
    [dtype |-> sl.dtype, shape |-> <<n, sl.shape[1], sl.shape[2]>>,
     data |-> [i \in Indices(<<n, sl.shape[1], sl.shape[2]>>) |-> sl.data[<<i[2], i[3]>>]]]

\* ------------------------------------------------------------------ files
NoPath == [dir |-> "", name |-> <<>>, ext |-> ""]

exists(d, path) == path \in DOMAIN d

\* the disk d with `arr` written at `path`
write(d, path, arr) ==
    [p \in DOMAIN d \cup {path} |-> IF p = path THEN arr ELSE d[p]]

Return(arr) == [raised |-> "", val |-> arr]
Raise(exc) == [raised |-> exc, val |-> None]

resolve_orientation_ties(arr) ==
    LET z == arr.shape[1]
        y == arr.shape[2]
        x == arr.shape[3]
    IN  IF y <= z /\ y <= x THEN np_moveaxis(arr, 1)
        ELSE IF x <= y /\ x <= z THEN np_moveaxis(arr, 2)
        ELSE arr

\* the orientation heuristic of load_image_or_stack for a 3-D stack
resolve_orientation(arr) ==
    LET z == arr.shape[1]
        y == arr.shape[2]
        x == arr.shape[3]
    IN  IF y < z /\ y < x THEN np_moveaxis(arr, 1)
        ELSE IF x < y /\ x < z THEN np_moveaxis(arr, 2)
        ELSE arr

\* volume_manager.load_image_or_stack.  Image files hold grayscale rasters,
\* so cv2.imread returns a 2-D array.
load_image_or_stack(d, path) ==
    IF ~exists(d, path) THEN Raise("FileNotFoundError")
    ELSE IF path.ext \in {".png", ".jpg", ".jpeg"} THEN Return(_to_uint8(d[path]))
    ELSE IF path.ext \in {".tif", ".tiff"}
         THEN LET arr == _to_uint8(d[path])
              IN  IF ndim(arr) = 2 THEN Return(arr)
                  ELSE Return(resolve_orientation(arr))
    ELSE Raise("ValueError")

candidates_swapped ==
    << <<0, 1, 2>>, <<1, 0, 2>>, <<2, 0, 1>>, <<1, 2, 0>>, <<2, 1, 0>>, <<0, 2, 1>> >>

\* the candidate axis orders of load_mask_like, in the order they are tried
candidates ==
    << <<0, 1, 2>>, <<1, 0, 2>>, <<2, 1, 0>>, <<1, 2, 0>>, <<2, 0, 1>>, <<0, 2, 1>> >>

\* tuple(np.array(mask.shape)[list(perm)])
permuted_shape(shape, perm) ==
    <<shape[perm[1] + 1], shape[perm[2] + 1], shape[perm[3] + 1]>>

\* the for loop of load_mask_like: the index of the first candidate whose
\* permuted mask shape is the volume's, 0 when there is none (best is None)
best_candidate(mask, volume) ==
    LET hits == {n \in 1..Len(candidates) :
                    ndim(mask) = 3 /\ permuted_shape(mask.shape, candidates[n]) = volume.shape}
    IN  IF hits = {} THEN 0 ELSE SetMin(hits)

\* the resampling fallback of load_mask_like (best is None); volume.shape[2]
\* of a 2-D volume raises IndexError
resample_fallback(mask, volume) ==
    IF ndim(volume) < 3 THEN Raise("IndexError")
    ELSE Return(binarize(np_stack(
            cv2_resize(IF ndim(mask) = 3 THEN first_slice(mask) ELSE mask,
                       volume.shape[3], volume.shape[2]),
            volume.shape[1])))

\* volume_manager.load_mask_like.  tiff.imread raises on a file that is not
\* a TIFF.
load_mask_like_keep_axes(d, mask_path, volume) ==
    IF mask_path = NoPath \/ ~exists(d, mask_path) THEN Return(zeros_like(volume))
    ELSE IF mask_path.ext \notin {".tif", ".tiff"} THEN Raise("TiffFileError")
    ELSE LET mask == _to_uint8(d[mask_path])
         IN  IF mask.shape = volume.shape \/ best_candidate(mask, volume) # 0
             THEN Return(mask)
             ELSE resample_fallback(mask, volume)

load_mask_like(d, mask_path, volume) ==
    IF mask_path = NoPath \/ ~exists(d, mask_path) THEN Return(zeros_like(volume))
    ELSE IF mask_path.ext \notin {".tif", ".tiff"} THEN Raise("TiffFileError")
    ELSE LET mask == _to_uint8(d[mask_path])
             best == best_candidate(mask, volume)
         IN  IF mask.shape = volume.shape THEN Return(mask)
             ELSE IF best # 0 THEN Return(binarize(np_transpose(mask, candidates[best])))
             ELSE resample_fallback(mask, volume)

\* volume_manager.save_mask: the disk after tiff.imwrite(path, mask > 0)
save_mask(d, mask, path) == write(d, path, binarize(mask))

\* ------------------------------------------------------------------ inputs
Path(dir, name, ext) == [dir |-> dir, name |-> <<name>>, ext |-> ext]

Shapes2 == {<<h, w>> : h \in Dims, w \in Dims}
Shapes3 == {<<a, b, c>> : a \in Dims, b \in Dims, c \in Dims}

\* a shape the orientation heuristic leaves alone
Resolved(shape) ==
    \/ Len(shape) = 2
    \/ /\ ~(shape[2] < shape[1] /\ shape[2] < shape[3])
       /\ ~(shape[3] < shape[2] /\ shape[3] < shape[1])

Sum(idx) == IF Len(idx) = 2 THEN idx[1] + idx[2] ELSE idx[1] + idx[2] + idx[3]

\* an array whose samples grow with the index
Ramp(dtype, shape) ==
    [dtype |-> dtype, shape |-> shape, data |-> [i \in Indices(shape) |-> Sum(i)]]

\* an array that is v at index `hot` and 0 elsewhere
OneHot(dtype, shape, hot, v) ==
    [dtype |-> dtype, shape |-> shape,
     data |-> [i \in Indices(shape) |-> IF i = hot THEN v ELSE 0]]

\* the samples an array of a dtype is generated from
SampleSet(dtype) ==
    IF dtype = "uint8" THEN (0..MaxSample) \cup {255}
    ELSE IF dtype = "int16" THEN (0 - 1)..MaxSample
    ELSE 0..MaxSample

\* inputs of _to_uint8: every 2x2 array over the samples of its dtype
CanonInputs ==
    UNION {{[dtype |-> t, shape |-> <<2, 2>>, data |-> f] :
                f \in [Indices(<<2, 2>>) -> SampleSet(t)]} : t \in {"uint8", "uint16", "int16"}}

\* mask files: all-zero and one-hot arrays of every shape
MaskInputs ==
    UNION {{OneHot("uint8", s, <<0, 0>>, 0)} \cup
           {OneHot("uint8", s, h, v) : h \in Indices(s), v \in {1, 255}} \cup
           {OneHot("uint16", s, h, 1) : h \in Indices(s)} : s \in Shapes2 \cup Shapes3}

\* volumes as load_image_or_stack returns them
VolumeInputs == {Ramp("uint8", s) : s \in {t \in Shapes2 \cup Shapes3 : Resolved(t)}}

\* image files: [path, the disk it is read from]
ImageInputs ==
    {[path |-> Path("data", "stack", e), disk |-> (Path("data", "stack", e) :> Ramp(t, s))] :
        e \in {".tif", ".tiff"}, t \in {"uint8", "uint16"}, s \in Shapes2 \cup Shapes3}
    \cup
    {[path |-> Path("data", "image", e), disk |-> (Path("data", "image", e) :> Ramp(t, s))] :
        e \in {".png", ".jpg", ".jpeg"}, t \in {"uint8", "uint16"}, s \in Shapes2}
    \cup
    {[path |-> Path("data", "notes", ".txt"),
      disk |-> (Path("data", "notes", ".txt") :> Ramp("uint8", <<2, 2>>))],
     [path |-> Path("data", "missing", ".tif"), disk |-> <<>>]}

MaskPath == Path("data", "labels", ".tif")

\* ------------------------------------------------------------------ state
InitSession ==
    [mode3d |-> FALSE, image_path |-> NoPath, mask_path |-> NoPath,
     load_mode |-> "path", image_name |-> <<>>]

Pending == [raised |-> "pending", val |-> None]

\* ------------------------------------------------------------------ session
\* the files the session starts with
StackPath == Path("data", "stack", ".tif")
ImagePath == Path("data", "image", ".png")
PhotoPath == Path("data", "photo", ".jpg")
NotesPath == Path("data", "notes", ".txt")
MissingPath == Path("data", "missing", ".tif")
LabelsPath == Path("data", "labels", ".tif")
LabelsTPath == Path("data", "labels_t", ".tif")
LabelsSPath == Path("data", "labels_s", ".tif")
Labels2Path == Path("data", "labels2d", ".tif")

InitDisk ==
    (StackPath :> Ramp("uint8", <<3, 2, 3>>)) @@
    (ImagePath :> Ramp("uint8", <<2, 3>>)) @@
    (PhotoPath :> Ramp("uint8", <<2, 2>>)) @@
    (NotesPath :> Ramp("uint8", <<2, 2>>)) @@
    (LabelsPath :> OneHot("uint8", <<2, 3, 3>>, <<1, 0, 2>>, 255)) @@
    (LabelsTPath :> OneHot("uint8", <<3, 3, 2>>, <<0, 2, 1>>, 255)) @@
    (LabelsSPath :> OneHot("uint16", <<2, 2, 2>>, <<0, 1, 1>>, 1)) @@
    (Labels2Path :> OneHot("uint8", <<2, 3>>, <<1, 2>>, 1))

\* os.path.join(dirname, base_name + "_mask" + ext)
mask_save_path(dir, name, ext) == [dir |-> dir, name |-> Append(name, "_mask"), ext |-> ext]

\* what a load request may name as its image and as its mask
ImageChoices == {StackPath, ImagePath, PhotoPath, NotesPath, MissingPath, NoPath}
MaskChoices ==
    {LabelsPath, LabelsTPath, LabelsSPath, Labels2Path, NoPath,
     mask_save_path("data", <<"stack">>, ".tif")}

\* the bitmaps a client submits, as Image.open(...).convert("L") decodes them
Bitmaps ==
    {OneHot("uint8", <<3, 3>>, <<0, 0>>, 255),
     [dtype |-> "uint8", shape |-> <<2, 2>>,
      data |-> (<<0, 0>> :> 0 @@ <<0, 1>> :> 200 @@ <<1, 0>> :> 128 @@ <<1, 1>> :> 127)]}

\* the slice indices a client submits
ZReq == (0 - MaxZ)..MaxZ

Items == {[z |-> z, png |-> b] : z \in ZReq, b \in Bitmaps}

Batches == UNION {[1..n -> Items] : n \in 0..MaxBatch}

\* a response: the handler that answered, the HTTP status, the warning or
\* error text, the exception behind it, and the payload
NoResp == [op |-> "", status |-> 0, error |-> "", raised |-> "", val |-> None]
Resp(op, status, error, raised, val) ==
    [op |-> op, status |-> status, error |-> error, raised |-> raised, val |-> val]

\* (np.array(img) > 127).astype(np.uint8)
threshold(bmp) ==
    [dtype |-> "uint8", shape |-> bmp.shape,
     data |-> [i \in DOMAIN bmp.data |-> IF bmp.data[i] > 127 THEN 1 ELSE 0]]

\* mask[:] = arr: every slice of a 3-D mask is overwritten, where the code
\* writes mask[z]
set_every_slice(mask, z, arr) ==
    LET n == mask.shape[1]
    IN  IF z < 0 - n \/ z > n - 1 THEN [mask |-> mask, raised |-> "IndexError"]
        ELSE [mask |-> [mask EXCEPT !.data =
                          [i \in DOMAIN mask.data |-> arr.data[<<i[2], i[3]>>]]],
              raised |-> ""]

\* mask[z] = arr of a 3-D mask: Python indexing, a negative z counts from the
\* end, z outside [-Z, Z-1] raises IndexError
set_slice(mask, z, arr) ==
    LET n == mask.shape[1]
    IN  IF z < 0 - n \/ z > n - 1 THEN [mask |-> mask, raised |-> "IndexError"]
        ELSE [mask |-> [mask EXCEPT !.data =
                          [i \in DOMAIN mask.data |->
                              IF i[1] = z % n THEN arr.data[<<i[2], i[3]>>] ELSE mask.data[i]]],
              raised |-> ""]

\* one edit of api_mask_update: threshold, resample to the mask's plane, write
apply_edit(mask, z, png) ==
    IF ndim(mask) = 2
    THEN [mask |-> [mask EXCEPT !.data =
                      cv2_resize(threshold(png), mask.shape[2], mask.shape[1]).data],
          raised |-> ""]
    ELSE set_slice(mask, z, cv2_resize(threshold(png), mask.shape[3], mask.shape[2]))

\* the for loop over data["full_batch"]: the mask is written in place, so an
\* item that raises leaves the earlier items' writes behind
RECURSIVE apply_batch(_, _)
apply_batch(mask, items) ==
    IF items = <<>> THEN [mask |-> mask, raised |-> ""]
    ELSE LET r == apply_edit(mask, Head(items).z, Head(items).png)
         IN  IF r.raised # "" THEN r ELSE apply_batch(r.mask, Tail(items))

\* "if mask is None and volume is not None: mask = np.zeros_like(volume)"
ensure_mask == 
    IF CURRENT_MASK = None /\ CURRENT_VOLUME # None THEN zeros_like(CURRENT_VOLUME)
    ELSE CURRENT_MASK

\* the masks and the lists the batch loop is run alone on
EditMasks ==
    {zeros_like(Ramp("uint8", <<2, 3, 3>>)), OneHot("uint8", <<2, 3, 3>>, <<1, 0, 2>>, 255)}
\* the volume an edit request is run alone against
EditVolume == Ramp("uint8", <<2, 3, 3>>)
EditLists == UNION {[1..n -> Items] : n \in 0..MaxEdits}

\* routes/editor.api_mask_update with the JSON body {kind: items}: a list
\* for "full_batch", one edit for "full_png", neither key for "neither"
mask_update(kind, items) ==
    /\ nreq < MaxRequests
    /\ kind = "full_png" => Len(items) = 1
    /\ kind = "neither" => Len(items) = 0
    /\ IF CURRENT_MASK = None /\ CURRENT_VOLUME = None
       THEN /\ resp' = Resp("api_mask_update", 404, "No mask or image loaded", "", None)
            /\ UNCHANGED CURRENT_MASK
       ELSE IF kind = "neither"
       THEN /\ resp' = Resp("api_mask_update", 400, "Invalid data", "", None)
            /\ CURRENT_MASK' = ensure_mask
       ELSE LET r == apply_batch(ensure_mask, items)
            IN  /\ CURRENT_MASK' = r.mask
                /\ resp' = IF r.raised # "" THEN Resp("api_mask_update", 500, "", r.raised, None)
                           ELSE Resp("api_mask_update", 200, "", "", None)
    /\ nreq' = nreq + 1
    /\ UNCHANGED <<disk, session, CURRENT_VOLUME, call>>

\* ------------------------------------------------- the functions, called alone
InitFn ==
    /\ session = InitSession
    /\ nreq = 0
    /\ resp = Pending
    /\ \/ /\ CURRENT_VOLUME = None
          /\ CURRENT_MASK = None
          /\ \/ \E x \in CanonInputs :
                   /\ call = [op |-> "_to_uint8", arr |-> x, path |-> NoPath]
                   /\ disk = <<>>
             \/ \E f \in ImageInputs :
                   /\ call = [op |-> "load_image_or_stack", arr |-> None, path |-> f.path]
                   /\ disk = f.disk
             \/ \E v \in VolumeInputs, m \in MaskInputs :
                   /\ call = [op |-> "load_mask_like", arr |-> v, path |-> MaskPath]
                   /\ disk = (MaskPath :> m)
             \/ \E v \in VolumeInputs, mp \in {NoPath, MaskPath} :
                   /\ call = [op |-> "load_mask_like", arr |-> v, path |-> mp]
                   /\ disk = <<>>
             \/ \E m \in EditMasks, items \in EditLists :
                   /\ call = [op |-> "full_batch", arr |-> m, path |-> NoPath, items |-> items]
                   /\ disk = <<>>
       \/ \E m \in EditMasks \cup {None}, kind \in {"full_batch", "full_png", "neither"},
             items \in EditLists :
             /\ kind = "full_png" => Len(items) = 1
             /\ kind = "neither" => Len(items) = 0
             /\ call = [op |-> "api_mask_update", arr |-> m, path |-> NoPath,
                        kind |-> kind, items |-> items, volume |-> EditVolume]
             /\ CURRENT_VOLUME = EditVolume
             /\ CURRENT_MASK = m
             /\ disk = <<>>

Call_to_uint8 ==
    /\ call.op = "_to_uint8" /\ resp = Pending
    /\ resp' = Return(_to_uint8(call.arr))
    /\ UNCHANGED <<disk, session, CURRENT_VOLUME, CURRENT_MASK, call, nreq>>

Call_load_image_or_stack ==
    /\ call.op = "load_image_or_stack" /\ resp = Pending
    /\ resp' = load_image_or_stack(disk, call.path)
    /\ UNCHANGED <<disk, session, CURRENT_VOLUME, CURRENT_MASK, call, nreq>>

Call_load_mask_like ==
    /\ call.op = "load_mask_like" /\ resp = Pending
    /\ resp' = load_mask_like(disk, call.path, call.arr)
    /\ UNCHANGED <<disk, session, CURRENT_VOLUME, CURRENT_MASK, call, nreq>>

\* the "full_batch" loop of api_mask_update on the mask call.arr
Call_full_batch ==
    /\ call.op = "full_batch" /\ resp = Pending
    /\ resp' = [raised |-> apply_batch(call.arr, call.items).raised,
                val |-> apply_batch(call.arr, call.items).mask]
    /\ UNCHANGED <<disk, session, CURRENT_VOLUME, CURRENT_MASK, call, nreq>>

\* one whole api_mask_update request against the volume and the mask (or no
\* mask yet) the call was set up with
Call_api_mask_update ==
    /\ call.op = "api_mask_update" /\ resp = Pending
    /\ mask_update(call.kind, call.items)

NextFn ==
    \/ Call_to_uint8
    \/ Call_load_image_or_stack
    \/ Call_load_mask_like
    \/ Call_full_batch
    \/ Call_api_mask_update

SpecFn == InitFn /\ [][NextFn]_vars

\* ------------------------------------------------- claims on the functions
Called(op) == call.op = op /\ resp # Pending

\* the mask load_mask_like works on: the file's content, canonicalized
MaskRead == _to_uint8(disk[call.path])

AllPerms ==
    {<<0, 1, 2>>, <<0, 2, 1>>, <<1, 0, 2>>, <<1, 2, 0>>, <<2, 0, 1>>, <<2, 1, 0>>}

\* C1: for every volume and every readable mask, or none, load_mask_like
\* returns without raising and its result has the volume's shape.
C1_AlignedShape ==
    Called("load_mask_like") => resp.raised = "" /\ resp.val.shape = call.arr.shape

\* a readable 3-D mask whose shape is a permutation of the volume's, not equal
C4_PermutationCase ==
    /\ Called("load_mask_like")
    /\ exists(disk, call.path)
    /\ ndim(MaskRead) = 3
    /\ MaskRead.shape # call.arr.shape
    /\ \E q \in AllPerms :
           <<MaskRead.shape[q[1] + 1], MaskRead.shape[q[2] + 1], MaskRead.shape[q[3] + 1]>>
               = call.arr.shape

\* C4: a 3-D mask whose shape differs from the volume's and is a permutation
\* of it is returned as transpose(mask, p) thresholded to 0/1, p being the
\* first of (0,1,2), (1,0,2), (2,1,0), (1,2,0), (2,0,1), (0,2,1) that carries
\* the mask's shape to the volume's; no resampling takes place.
C4_FirstPermutation ==
    C4_PermutationCase =>
        LET order == << <<0, 1, 2>>, <<1, 0, 2>>, <<2, 1, 0>>,
                        <<1, 2, 0>>, <<2, 0, 1>>, <<0, 2, 1>> >>
            fits(n) == \A k \in 1..3 : MaskRead.shape[order[n][k] + 1] = call.arr.shape[k]
            first == CHOOSE n \in 1..6 : fits(n) /\ \A m \in 1..(n - 1) : ~fits(m)
            p == order[first]
        IN  /\ resp.raised = ""
            /\ resp.val.shape = call.arr.shape
            /\ \A i \in Indices(MaskRead.shape) :
                   resp.val.data[<<i[p[1] + 1], i[p[2] + 1], i[p[3] + 1]>>]
                       = IF MaskRead.data[i] > 0 THEN 1 ELSE 0

\* a permutation case in which a later candidate fits as well and would have
\* put the foreground sample elsewhere
C4_Witness ==
    /\ C4_PermutationCase
    /\ resp.raised = ""
    /\ resp.val # binarize(np_transpose(MaskRead, <<2, 0, 1>>))
    /\ permuted_shape(MaskRead.shape, <<2, 0, 1>>) = call.arr.shape
    /\ \E i \in DOMAIN resp.val.data : resp.val.data[i] = 1

RawStack == disk[call.path]

C7_StackCase ==
    /\ Called("load_image_or_stack")
    /\ exists(disk, call.path)
    /\ call.path.ext \in {".tif", ".tiff"}
    /\ ndim(RawStack) = 3

\* C7: a stack of raw shape (d0, d1, d2) comes out with shape (d1, d0, d2)
\* when d1 < d0 and d1 < d2, else (d2, d0, d1) when d2 < d0 and d2 < d1, else
\* unchanged (every tie included).
C7_Orientation ==
    C7_StackCase =>
        LET d0 == RawStack.shape[1]
            d1 == RawStack.shape[2]
            d2 == RawStack.shape[3]
        IN  /\ resp.raised = ""
            /\ (d1 < d0 /\ d1 < d2) => resp.val.shape = <<d1, d0, d2>>
            /\ (~(d1 < d0 /\ d1 < d2) /\ d2 < d0 /\ d2 < d1) => resp.val.shape = <<d2, d0, d1>>
            /\ (~(d1 < d0 /\ d1 < d2) /\ ~(d2 < d0 /\ d2 < d1)) =>
                   resp.val = _to_uint8(RawStack)

\* a stack with a small middle axis was reordered
C7_Witness ==
    /\ C7_StackCase
    /\ RawStack.shape = <<MaxDim, 2, MaxDim>>
    /\ resp.val.shape = <<2, MaxDim, MaxDim>>

\* C9: _to_uint8(_to_uint8(x)) = _to_uint8(x) for every input x.
C9_Idempotent ==
    Called("_to_uint8") => _to_uint8(resp.val) = resp.val

\* a non-constant array of a wider dtype was rescaled
C9_Witness ==
    /\ Called("_to_uint8")
    /\ call.arr.dtype = "uint16"
    /\ resp.val # call.arr
    /\ \E i \in DOMAIN resp.val.data : resp.val.data[i] \notin {0, 255}

\* a non-uint8 input that is not constant was canonicalized
C10_RescaleCase ==
    /\ Called("_to_uint8")
    /\ call.arr.dtype # "uint8"
    /\ SetMax(Samples(call.arr)) > SetMin(Samples(call.arr))

\* round() of the non-negative rational num/den, halves to the even neighbour
RoundHalfEven(num, den) ==
    LET q == num \div den
        r == num % den
    IN  IF 2 * r < den THEN q
        ELSE IF 2 * r > den THEN q + 1
        ELSE IF q % 2 = 0 THEN q ELSE q + 1

\* C10 (as claimed): for a non-uint8 integer input with max > min every output
\* sample is clip(round((x - min) / (max - min) * 255), 0, 255).
C10_Rounded ==
    C10_RescaleCase =>
        LET mn == SetMin(Samples(call.arr))
            mx == SetMax(Samples(call.arr))
        IN  \A i \in DOMAIN call.arr.data :
                resp.val.data[i] = RoundHalfEven((call.arr.data[i] - mn) * 255, mx - mn)

\* C10 (amended): every output sample is the scaled value with its fraction
\* dropped: the largest integer n with n <= (x - min) / (max - min) * 255.
C10_Truncated ==
    C10_RescaleCase =>
        LET mn == SetMin(Samples(call.arr))
            mx == SetMax(Samples(call.arr))
        IN  \A i \in DOMAIN call.arr.data :
                LET n == resp.val.data[i]
                IN  /\ n \in 0..255
                    /\ n * (mx - mn) <= (call.arr.data[i] - mn) * 255
                    /\ (call.arr.data[i] - mn) * 255 < (n + 1) * (mx - mn)

\* a sample whose scaled value has a fraction of at least one half was stored
C10_Witness ==
    /\ C10_RescaleCase
    /\ \E i \in DOMAIN call.arr.data :
           LET mn == SetMin(Samples(call.arr))
               mx == SetMax(Samples(call.arr))
           IN  /\ 2 * (((call.arr.data[i] - mn) * 255) % (mx - mn)) >= mx - mn
               /\ resp.val.data[i] = ((call.arr.data[i] - mn) * 255) \div (mx - mn)

\* a readable mask against a 3-D volume, its shape neither the volume's nor
\* one of the six permutations of it
C11_FallbackCase ==
    /\ Called("load_mask_like")
    /\ exists(disk, call.path)
    /\ ndim(call.arr) = 3
    /\ MaskRead.shape # call.arr.shape
    /\ ~(/\ ndim(MaskRead) = 3
         /\ \E q \in AllPerms :
                <<MaskRead.shape[q[1] + 1], MaskRead.shape[q[2] + 1], MaskRead.shape[q[3] + 1]>>
                    = call.arr.shape)

\* the representative slice: the first slice of a 3-D mask, a 2-D mask whole
C11_Representative ==
    IF ndim(MaskRead) = 3
    THEN [y \in 0..(MaskRead.shape[2] - 1), x \in 0..(MaskRead.shape[3] - 1) |->
              MaskRead.data[<<0, y, x>>]]
    ELSE [y \in 0..(MaskRead.shape[1] - 1), x \in 0..(MaskRead.shape[2] - 1) |->
              MaskRead.data[<<y, x>>]]

\* source row/column of nearest-neighbour resampling from s to d samples
C11_Nearest(p, s, d) == IF (p * s) \div d > s - 1 THEN s - 1 ELSE (p * s) \div d

\* C11: when the mask's shape is neither the 3-D target shape (Z, H, W) nor a
\* candidate permutation of it, load_mask_like returns Z identical slices,
\* each the nearest-neighbour resize to (H, W) of the representative slice
\* (first slice of a 3-D mask, the whole of a 2-D mask) thresholded to 0/1.
C11_FallbackSlices ==
    C11_FallbackCase =>
        LET sh == IF ndim(MaskRead) = 3 THEN MaskRead.shape[2] ELSE MaskRead.shape[1]
            sw == IF ndim(MaskRead) = 3 THEN MaskRead.shape[3] ELSE MaskRead.shape[2]
            H == call.arr.shape[2]
            W == call.arr.shape[3]
        IN  /\ resp.raised = ""
            /\ resp.val.shape = call.arr.shape
            /\ \A i \in Indices(call.arr.shape) :
                   resp.val.data[i] =
                       IF C11_Representative[C11_Nearest(i[2], sh, H),
                                             C11_Nearest(i[3], sw, W)] > 0
                       THEN 1 ELSE 0

\* a 3-D mask went through the fallback and left a set sample in the result
C11_Witness ==
    /\ C11_FallbackCase
    /\ ndim(MaskRead) = 3
    /\ MaskRead.shape[1] > 1
    /\ \E i \in Indices(call.arr.shape) : resp.val.data[i] = 1

\* ----------------------------------------------------------- the session runs
NoCall == [op |-> "none", arr |-> None, path |-> NoPath]

Init ==
    /\ disk = InitDisk
    /\ session = InitSession
    /\ CURRENT_VOLUME = None
    /\ CURRENT_MASK = None
    /\ call = NoCall
    /\ resp = NoResp
    /\ nreq = 0

\* a load that stores the volume as soon as the image is read, before the
\* mask is aligned, where the code stores both after the try block
LoadInto_volume_first(d, load_mode, img_path, mask_path) ==
    LET v == load_image_or_stack(d, img_path)
        m == IF v.raised = "" THEN load_mask_like(d, mask_path, v.val) ELSE v
    IN  /\ disk' = d
        /\ CURRENT_VOLUME' = IF v.raised = "" THEN v.val ELSE CURRENT_VOLUME
        /\ IF m.raised # ""
           THEN /\ resp' = Resp("index", 200, "Error loading data", m.raised, None)
                /\ UNCHANGED <<session, CURRENT_MASK>>
           ELSE /\ session' = [mode3d |-> ndim(v.val) = 3, image_path |-> img_path,
                               mask_path |-> mask_path, load_mode |-> load_mode,
                               image_name |-> Append(img_path.name, img_path.ext)]
                /\ CURRENT_MASK' = m.val
                /\ resp' = Resp("index", 200, "", "", None)

\* landing.index, POST: steps 3 and 4, after the request's paths are settled
\* and its uploads are stored in d
LoadInto(d, load_mode, img_path, mask_path) ==
    LET v == load_image_or_stack(d, img_path)
        m == IF v.raised = "" THEN load_mask_like(d, mask_path, v.val) ELSE v
    IN  /\ disk' = d
        /\ IF m.raised # ""
           THEN /\ resp' = Resp("index", 200, "Error loading data", m.raised, None)
                /\ UNCHANGED <<session, CURRENT_VOLUME, CURRENT_MASK>>
           ELSE /\ session' = [mode3d |-> ndim(v.val) = 3, image_path |-> img_path,
                               mask_path |-> mask_path, load_mode |-> load_mode,
                               image_name |-> Append(img_path.name, img_path.ext)]
                /\ CURRENT_VOLUME' = v.val
                /\ CURRENT_MASK' = m.val
                /\ resp' = Resp("index", 200, "", "", None)

\* landing.index, POST with load_mode = "path" and the form's two paths
index_path(img, msk) ==
    /\ nreq < MaxRequests
    /\ IF img = NoPath \/ ~exists(disk, img)
       THEN /\ resp' = Resp("index", 200, "Image/stack not found", "", None)
            /\ UNCHANGED <<disk, session, CURRENT_VOLUME, CURRENT_MASK>>
       ELSE IF msk # NoPath /\ ~exists(disk, msk)
       THEN /\ resp' = Resp("index", 200, "Mask file not found", "", None)
            /\ UNCHANGED <<disk, session, CURRENT_VOLUME, CURRENT_MASK>>
       ELSE LoadInto(disk, "path", img, msk)
    /\ nreq' = nreq + 1
    /\ UNCHANGED call

\* landing.index, POST with load_mode = "upload": the client sends the content
\* of its file img as image_file and, unless msk is NoPath, of msk as
\* mask_file; both are stored under ./_uploads before anything is loaded
index_upload(img, msk) ==
    /\ nreq < MaxRequests
    /\ IF img = NoPath
       THEN /\ resp' = Resp("index", 200, "Please choose an image or stack file", "", None)
            /\ UNCHANGED <<disk, session, CURRENT_VOLUME, CURRENT_MASK>>
       ELSE LET img_path == [img EXCEPT !.dir = "_uploads"]
                d1 == write(disk, img_path, InitDisk[img])
                mask_path == IF msk = NoPath THEN NoPath ELSE [msk EXCEPT !.dir = "_uploads"]
                d2 == IF msk = NoPath THEN d1 ELSE write(d1, mask_path, InitDisk[msk])
            IN  LoadInto(d2, "upload", img_path, mask_path)
    /\ nreq' = nreq + 1
    /\ UNCHANGED call

\* mask[z] of a 3-D mask, 0 <= z < Z
slice(mask, z) ==
    [dtype |-> mask.dtype, shape |-> <<mask.shape[2], mask.shape[3]>>,
     data |-> [i \in Indices(<<mask.shape[2], mask.shape[3]>>) |-> mask.data[<<z, i[1], i[2]>>]]]

\* int(np.clip(z, 0, n - 1))
np_clip(z, n) == IF z < 0 THEN 0 ELSE IF z > n - 1 THEN n - 1 ELSE z

\* routes/editor.api_mask: the mask slice as a 0/255 image, z clipped
mask_slice(z) ==
    /\ nreq < MaxRequests
    /\ CURRENT_MASK' = ensure_mask
    /\ LET mask == ensure_mask
           sl == IF ndim(mask) = 2 THEN mask ELSE slice(mask, np_clip(z, mask.shape[1]))
       IN  resp' = IF mask = None THEN Resp("api_mask", 404, "No mask loaded", "", None)
                   ELSE Resp("api_mask", 200, "", "", [sl EXCEPT !.data =
                            [i \in DOMAIN sl.data |-> IF sl.data[i] > 0 THEN 255 ELSE 0]])
    /\ nreq' = nreq + 1
    /\ UNCHANGED <<disk, session, CURRENT_VOLUME, call>>

\* what reading back a JPEG of the 0/255 image `img` may return.  JPEG is a
\* lossy codec: a flat image decodes exactly, a sample of any other image may
\* come back off its encoded value (here by one level at least)
jpeg_decodings(img) ==
    IF Cardinality(Samples(img)) = 1 THEN {img}
    ELSE {[img EXCEPT !.data = f] :
            f \in {g \in [DOMAIN img.data -> {0, 1, 254, 255}] :
                      \A i \in DOMAIN img.data :
                          g[i] \in (IF img.data[i] = 0 THEN {0, 1} ELSE {254, 255})}}

\* the contents api_save may leave in the file, by extension:
\* tifffile.imwrite(mask.astype(np.uint8)) or
\* Image.fromarray((mask > 0).astype(np.uint8) * 255).save(mask_path)
saved_contents(mask, ext) ==
    LET img == [mask EXCEPT !.data = [i \in DOMAIN mask.data |->
                                         IF mask.data[i] > 0 THEN 255 ELSE 0]]
    IN  IF ext \in {".tif", ".tiff"} THEN {mask}
        ELSE IF ext = ".png" THEN {img}
        ELSE jpeg_decodings(img)

\* the path api_save writes to
save_path ==
    LET img_path == session.image_path
        upload == session.load_mode = "upload" \/ img_path = NoPath \/ ~exists(disk, img_path)
        base_dir == IF upload THEN "_uploads" ELSE img_path.dir
        base_name == IF upload
                     THEN SubSeq(session.image_name, 1, Len(session.image_name) - 1)
                     ELSE img_path.name
        ext == IF img_path # NoPath /\ img_path.ext \in {".png", ".jpg", ".jpeg"}
               THEN img_path.ext ELSE ".tif"
    IN  mask_save_path(base_dir, base_name, ext)

\* routes/editor.api_save
api_save ==
    /\ nreq < MaxRequests
    /\ IF CURRENT_MASK = None /\ CURRENT_VOLUME = None
       THEN /\ resp' = Resp("api_save", 404, "No mask or image loaded", "", None)
            /\ UNCHANGED <<disk, CURRENT_MASK>>
       ELSE /\ CURRENT_MASK' = ensure_mask
            /\ \E stored \in saved_contents(ensure_mask, save_path.ext) :
                   disk' = write(disk, save_path, stored)
            /\ resp' = Resp("api_save", 200, "", "", save_path)
    /\ nreq' = nreq + 1
    /\ UNCHANGED <<session, CURRENT_VOLUME, call>>

\* routes/editor.api_download
api_download ==
    /\ nreq < MaxRequests
    /\ resp' = IF session.mask_path = NoPath \/ ~exists(disk, session.mask_path)
               THEN Resp("api_download", 404, "Nothing saved yet", "", None)
               ELSE Resp("api_download", 200, "", "", session.mask_path)
    /\ nreq' = nreq + 1
    /\ UNCHANGED <<disk, session, CURRENT_VOLUME, CURRENT_MASK, call>>

\* landing.index, POST, either load mode
index ==
    \/ \E img \in ImageChoices, msk \in MaskChoices : index_path(img, msk)
    \/ \E img \in ImageChoices \ {MissingPath}, msk \in MaskChoices \cap (DOMAIN InitDisk \cup {NoPath}) :
           index_upload(img, msk)

api_mask_update ==
    \E kind \in {"full_batch", "full_png", "neither"}, items \in Batches : mask_update(kind, items)

api_mask == \E z \in ZReq : mask_slice(z)

Next == index \/ api_mask_update \/ api_mask \/ api_save \/ api_download

Spec == Init /\ [][Next]_vars

\* ------------------------------------------------- claims on the session
\* C2: after any alignment and any sequence of edits every element of the
\* current mask is 0 or 1.
C2_BinaryMask ==
    CURRENT_MASK # None => Samples(CURRENT_MASK) \subseteq {0, 1}

\* C3: an edit of a 3-D mask whose z lies outside [0, Z-1] does not raise and
\* writes its bitmap to slice z clamped into [0, Z-1].
C3_ClampedEdit ==
    [][\A z \in ZReq, png \in Bitmaps :
          (/\ mask_update("full_png", <<[z |-> z, png |-> png]>>)
           /\ CURRENT_MASK # None
           /\ ndim(CURRENT_MASK) = 3
           /\ (z < 0 \/ z > CURRENT_MASK.shape[1] - 1))
          => /\ resp'.status = 200
             /\ slice(CURRENT_MASK', np_clip(z, CURRENT_MASK.shape[1]))
                    = cv2_resize(threshold(png), CURRENT_MASK.shape[3], CURRENT_MASK.shape[2])]_vars

\* C5: whenever a current volume and a current mask both exist, they have the
\* same shape.
C5_ShapesAgree ==
    (CURRENT_VOLUME # None /\ CURRENT_MASK # None) =>
        CURRENT_MASK.shape = CURRENT_VOLUME.shape

\* a mask that had to be transposed at load time has since been edited
C5_Witness ==
    /\ resp.op = "api_mask_update"
    /\ resp.status = 200
    /\ session.mask_path = LabelsTPath
    /\ disk[LabelsTPath].shape # CURRENT_VOLUME.shape
    /\ CURRENT_MASK # binarize(np_transpose(disk[LabelsTPath], <<2, 1, 0>>))

\* C6: after a batch, a slice that several of its edits are for (z being
\* clamped into [0, Z-1], as C3 has it) holds the thresholded, resampled
\* bitmap of the last of them.
C6_LastEditWins ==
    Called("full_batch") =>
        \A z \in 0..(call.arr.shape[1] - 1) :
            LET same == {k \in 1..Len(call.items) :
                            np_clip(call.items[k].z, call.arr.shape[1]) = z}
            IN  Cardinality(same) >= 2 =>
                    slice(resp.val, z) =
                        cv2_resize(threshold(call.items[SetMax(same)].png),
                                   call.arr.shape[3], call.arr.shape[2])

\* C8: the file api_save wrote, read back by load_image_or_stack and
\* binarized, is the binarized mask in memory.
C8_RoundTrip ==
    (resp.op = "api_save" /\ resp.status = 200) =>
        /\ load_image_or_stack(disk, resp.val).raised = ""
        /\ binarize(load_image_or_stack(disk, resp.val).val) = binarize(CURRENT_MASK)

\* the slices of a 3-D mask that differ between two masks of one shape
C12_Changed(before, after) ==
    {k \in 0..(before.shape[1] - 1) : slice(after, k) # slice(before, k)}

\* the mask an edit request works on: the current one, or the zero mask the
\* handler creates when there is none yet
C12_Before == IF call.arr = None THEN zeros_like(call.volume) ELSE call.arr

\* C12: an accepted edit request on a 3-D mask (one edit, or a batch) leaves
\* the current volume as it was and changes no mask slice but those its edits
\* are for: at most one slice per edit, and, the indices lying in [0, Z-1],
\* none but the slices named.
C12_OnlyNamedSlices ==
    (Called("api_mask_update") /\ resp.status = 200 /\ ndim(C12_Before) = 3) =>
        /\ CURRENT_VOLUME = call.volume
        /\ CURRENT_MASK.shape = C12_Before.shape
        /\ Cardinality(C12_Changed(C12_Before, CURRENT_MASK)) <= Len(call.items)
        /\ (\A k \in 1..Len(call.items) :
                call.items[k].z \in 0..(C12_Before.shape[1] - 1))
           => C12_Changed(C12_Before, CURRENT_MASK)
                  \subseteq {call.items[k].z : k \in 1..Len(call.items)}

\* an accepted batch has rewritten slice 0 of a mask whose slice 1, set
\* before, is as it was
C12_Witness ==
    /\ Called("api_mask_update")
    /\ resp.status = 200
    /\ call.kind = "full_batch"
    /\ Len(call.items) >= 2
    /\ call.arr # None
    /\ C12_Changed(call.arr, CURRENT_MASK) = {0}
    /\ \E i \in DOMAIN call.arr.data : i[1] = 1 /\ call.arr.data[i] # 0

\* a load of image img with mask msk from the files in d cannot succeed: a
\* path is missing, the extension is not supported, or reading or aligning
\* raises
C13_Fails(d, img, msk) ==
    \/ img = NoPath
    \/ ~exists(d, img)
    \/ msk # NoPath /\ ~exists(d, msk)
    \/ load_image_or_stack(d, img).raised # ""
    \/ load_mask_like(d, msk, load_image_or_stack(d, img).val).raised # ""

\* where an uploaded file is stored
C13_Uploaded(p) == IF p = NoPath THEN NoPath ELSE [p EXCEPT !.dir = "_uploads"]

\* C13: a load request that fails is answered with a warning and leaves the
\* session fields, the current volume and the current mask as they were; the
\* current volume is replaced by nothing but a load answered without warning,
\* which sets the session fields and the mask along with it.
C13_FailedLoadKeepsState ==
    [][/\ resp'.op = "index" =>
            /\ \A img \in ImageChoices, msk \in MaskChoices :
                   (index_path(img, msk) /\ C13_Fails(disk, img, msk)) =>
                       /\ resp'.error # ""
                       /\ UNCHANGED <<session, CURRENT_VOLUME, CURRENT_MASK>>
            /\ \A img \in ImageChoices \ {MissingPath},
                  msk \in MaskChoices \cap (DOMAIN InitDisk \cup {NoPath}) :
                   (/\ index_upload(img, msk)
                    /\ C13_Fails(disk', C13_Uploaded(img), C13_Uploaded(msk))) =>
                       /\ resp'.error # ""
                       /\ UNCHANGED <<session, CURRENT_VOLUME, CURRENT_MASK>>
       /\ CURRENT_VOLUME' # CURRENT_VOLUME =>
            /\ resp'.op = "index"
            /\ resp'.error = ""
            /\ CURRENT_MASK' # None
            /\ session'.mode3d = (ndim(CURRENT_VOLUME') = 3)]_vars

\* a load raised while aligning the mask, after an earlier load had
\* succeeded, and the earlier dataset is still the current one
C13_Witness ==
    /\ resp.op = "index"
    /\ resp.raised = "IndexError"
    /\ session.image_path = StackPath
    /\ CURRENT_VOLUME # None
    /\ CURRENT_MASK # None

\* C14: a download request that directly follows a successful save is
\* answered with the file that save wrote, not with 404 "Nothing saved yet".
C14_DownloadServesSave ==
    [][(/\ resp.op = "api_save"
        /\ resp.status = 200
        /\ resp'.op = "api_download")
       => /\ resp'.status = 200
          /\ resp'.val = resp.val]_vars

====
